---------------------------- MODULE Spec2Model ----------------------------
(***************************************************************************)
(* Excel File Merger (src/main.py): a Streamlit page with two file         *)
(* uploaders, two text inputs and a "Start Processing" button.  A click    *)
(* reads both workbooks, checks the columns, drops duplicate keys of       *)
(* File B, left-joins File B into File A, and renders the statistics, the  *)
(* merged table, the download and the unmatched rows.                      *)
(*                                                                         *)
(* A workbook is modelled by its first sheet as read_excel delivers it: a  *)
(* header (a sequence of distinct column names) and the data rows under    *)
(* it.  A cell holds text or reads as the missing marker NA (an empty      *)
(* cell, or a text such as "N/A").  A sheet without any cell has no header.*)
(* An uploader holds one workbook; replacing it is removing it and         *)
(* uploading another.                                                      *)
(***************************************************************************)
EXTENDS Naturals, Sequences, FiniteSets

VARIABLES
    file_a,          \* uploader "file_a": None or Some(workbook)
    file_b,          \* uploader "file_b": None or Some(workbook)
    merge_column,    \* text input "Reference Column"
    target_column,   \* text input "Column to Add"
    start_processing,\* the button's value in the last script run
    shown,           \* the elements the last script run rendered below the button
    error,           \* the st.error message of the last run
    df_b_clean,      \* None or Some(File B after drop_duplicates)
    merged,          \* None or Some(result of df_a.merge)
    stats,           \* the three st.metric values, each None or Some(n)
    download,        \* None or Some(table written to Games_State.xlsx)
    unmatched        \* None or Some(table shown in the unmatched expander)

vars == <<file_a, file_b, merge_column, target_column, start_processing, shown, error,
          df_b_clean, merged, stats, download, unmatched>>

-----------------------------------------------------------------------------
(* Bounds of the model *)

\* most data rows of an uploaded File A
MaxRowsA == 2
\* most data rows of an uploaded File B
MaxRowsB == 2

\* header names a workbook can use, in sheet order
ColNames == <<"email", "name", "state">>
\* headers of File B are drawn from these
ColNamesB == <<"email", "state">>
\* what the user types into the two text inputs
ConfigNames == {"email", "state"}

\* the missing marker (NaN) of an empty cell
NA == "NaN"

\* what the cells of a column hold: the "name" cells are always filled, the
\* others may be empty
CellVals(c) ==
    CASE c = "email" -> {"a@x.com", "b@x.com", NA}
      [] c = "state" -> {"CA", NA}
      [] OTHER       -> {"n"}

-----------------------------------------------------------------------------
(* Values *)

None == <<>>
Some(x) == <<x>>
IsSome(o) == Len(o) = 1
Get(o) == o[1]

Range(s) == {s[i] : i \in 1..Len(s)}

\* the sub-sequence of s at the (increasing) positions of the set idx
RECURSIVE Pick(_, _, _)
Pick(s, idx, i) ==
    IF i > Len(s) THEN <<>>
    ELSE (IF i \in idx THEN <<s[i]>> ELSE <<>>) \o Pick(s, idx, i + 1)

\* a sheet that cannot be read as a workbook
Corrupt == [wellformed |-> FALSE, cols |-> <<>>, rows |-> <<>>]

Sheet(cols, rows) == [wellformed |-> TRUE, cols |-> cols, rows |-> rows]

RowsOver(cols) ==
    {r \in [Range(cols) -> UNION {CellVals(c) : c \in Range(cols)}] :
        \A c \in Range(cols) : r[c] \in CellVals(c)}

\* every sheet with a header drawn from names and at most n data rows; a sheet
\* without header has no rows either (the empty sheet)
Sheets(names, n) ==
    UNION {
        LET cols == Pick(names, idx, 1) IN
        IF cols = <<>> THEN {Sheet(<<>>, <<>>)}
        ELSE UNION {{Sheet(cols, rows) : rows \in [1..k -> RowsOver(cols)]} : k \in 0..n}
      : idx \in SUBSET (1..Len(names))}

FilesA == {Corrupt} \cup Sheets(ColNames, MaxRowsA)
FilesB == {Corrupt} \cup Sheets(ColNamesB, MaxRowsB)

\* a DataFrame: ordered columns and rows (functions from the columns to cells)
Frame(cols, rows) == [cols |-> cols, rows |-> rows]


-----------------------------------------------------------------------------
(* Messages of st.error *)

NoError == [kind |-> "none", cause |-> "", columns |-> {}, file |-> ""]

\* st.error(f"Column '{c}' not found in {f}") followed by st.stop()
ColumnNotFound(c, f) ==
    [kind |-> "Column not found", cause |-> "", columns |-> {c}, file |-> f]

\* st.error(f"An error occurred: {str(e)}"): the text is the exception's own; it
\* names the columns the exception names and never a file
AnErrorOccurred(cause, cols) ==
    [kind |-> "An error occurred", cause |-> cause, columns |-> cols, file |-> ""]

Ok(df) == [ok |-> TRUE, df |-> df, error |-> NoError]
Raise(e) == [ok |-> FALSE, df |-> Frame(<<>>, <<>>), error |-> e]

-----------------------------------------------------------------------------
(* pandas *)

IsNa(v) == v = NA

\* the row r cut down to the columns cs
Project(r, cs) == [c \in cs |-> r[c]]

\* pd.read_excel(file): a sheet without any cell gives the empty DataFrame
ReadExcel(file) ==
    IF ~file.wellformed THEN Raise(AnErrorOccurred("bad workbook", {}))
    ELSE Ok(Frame(file.cols, file.rows))

\* pd.read_excel(file, usecols=[...]): the named columns, in sheet order; a name
\* the header lacks raises "Usecols do not match columns, columns expected but
\* not found: [...]"; a sheet without any cell gives the empty DataFrame
\* before usecols is looked at
ReadExcelUsecols(file, usecols) ==
    IF ~file.wellformed THEN Raise(AnErrorOccurred("bad workbook", {}))
    ELSE IF file.cols = <<>> THEN Ok(Frame(<<>>, <<>>))
    ELSE LET missing == usecols \ Range(file.cols)
             cols    == SelectSeq(file.cols, LAMBDA c : c \in usecols)
         IN  IF missing # {} THEN Raise(AnErrorOccurred("usecols", missing))
             ELSE Ok(Frame(cols, [i \in 1..Len(file.rows) |->
                                     Project(file.rows[i], Range(cols))]))

\* a drop_duplicates that never takes two missing keys for duplicates
DropDuplicatesNullAware(df, key) ==
    Frame(df.cols,
          Pick(df.rows,
               {i \in 1..Len(df.rows) :
                    IsNa(df.rows[i][key]) \/
                    \A j \in 1..(i - 1) : df.rows[j][key] # df.rows[i][key]},
               1))

\* df.drop_duplicates(subset=key): the first row of every key value stays, the
\* missing marker being a key value like any other
DropDuplicates(df, key) ==
    Frame(df.cols,
          Pick(df.rows,
               {i \in 1..Len(df.rows) :
                    \A j \in 1..(i - 1) : df.rows[j][key] # df.rows[i][key]},
               1))

\* the dtype read_excel infers for a column of text and empty cells: object with
\* any text or without rows, float64 (all NaN) otherwise
Dtype(df, c) ==
    IF Len(df.rows) = 0 \/ \E i \in 1..Len(df.rows) : ~IsNa(df.rows[i][c])
    THEN "object" ELSE "float64"

\* the suffixes merge gives a column the two frames share besides the key
SuffixX(c) ==
    CASE c = "email" -> "email_x" [] c = "name" -> "name_x"
      [] c = "state" -> "state_x" [] OTHER -> c
SuffixY(c) ==
    CASE c = "email" -> "email_y" [] c = "name" -> "name_y"
      [] c = "state" -> "state_y" [] OTHER -> c

LeftName(c, on, right)  == IF c # on /\ c \in Range(right.cols) THEN SuffixX(c) ELSE c
RightName(c, on, left)  == IF c \in Range(left.cols) THEN SuffixY(c) ELSE c

\* the columns of left.merge(right, on=on): left's, then right's without the key
MergeCols(left, right, on) ==
    [i \in 1..Len(left.cols) |-> LeftName(left.cols[i], on, right)]
    \o LET rest == SelectSeq(right.cols, LAMBDA c : c # on)
       IN  [i \in 1..Len(rest) |-> RightName(rest[i], on, left)]

\* one output row: the left row with the right row's other cells (NaN without
\* a right row)
JoinRow(left, right, on, lrow, rmatch) ==
    [n \in Range(MergeCols(left, right, on)) |->
        IF \E c \in Range(left.cols) : LeftName(c, on, right) = n
        THEN lrow[CHOOSE c \in Range(left.cols) : LeftName(c, on, right) = n]
        ELSE LET c == CHOOSE c \in Range(right.cols) \ {on} : RightName(c, on, left) = n
             IN  IF IsSome(rmatch) THEN Get(rmatch)[c] ELSE NA]

\* the output rows of the left rows i.., in left order; a left row gives one row
\* per right row of equal key (NaN equal to NaN), in right order, or one row
\* filled with NaN
RECURSIVE JoinRows(_, _, _, _)
JoinRows(left, right, on, i) ==
    IF i > Len(left.rows) THEN <<>>
    ELSE LET lrow == left.rows[i]
             hits == Pick(right.rows,
                          {j \in 1..Len(right.rows) : right.rows[j][on] = lrow[on]}, 1)
             out  == IF hits = <<>> THEN <<JoinRow(left, right, on, lrow, None)>>
                     ELSE [k \in 1..Len(hits) |->
                              JoinRow(left, right, on, lrow, Some(hits[k]))]
         IN  out \o JoinRows(left, right, on, i + 1)

\* left.merge(right, on=on, how='left'); with rows on both sides, a key column
\* of text against one of float64 raises "You are trying to merge on object and
\* float64 columns"
Merge(left, right, on) ==
    IF Len(left.rows) > 0 /\ Len(right.rows) > 0 /\ Dtype(left, on) # Dtype(right, on)
    THEN Raise(AnErrorOccurred("merge dtypes", {on}))
    ELSE Ok(Frame(MergeCols(left, right, on), JoinRows(left, right, on, 1)))

\* df[col].notna().sum() and df[col].isna().sum()
NotnaSum(df, col) == Cardinality({i \in 1..Len(df.rows) : ~IsNa(df.rows[i][col])})
IsnaSum(df, col)  == Cardinality({i \in 1..Len(df.rows) : IsNa(df.rows[i][col])})

\* df[df[col].isna()]
WhereNa(df, col) ==
    Frame(df.cols, Pick(df.rows, {i \in 1..Len(df.rows) : IsNa(df.rows[i][col])}, 1))

\* df[[...]]: the listed columns in the listed order, a column listed twice
\* appearing twice
Select(df, cols) ==
    Frame(cols, [i \in 1..Len(df.rows) |-> Project(df.rows[i], Range(cols))])

\* some label occurs twice among the columns
HasDuplicateLabels(cols) ==
    \E i, j \in 1..Len(cols) : i # j /\ cols[i] = cols[j]

\* st.dataframe(df): a frame with a repeated column label is rendered by a
\* Streamlit that accepts such labels and rejected by one that does not (the
\* Arrow conversion raises "Duplicate column names found: [...]"); the source
\* pins no version, so accepts is either
StDataframe(df, accepts) ==
    IF HasDuplicateLabels(df.cols) /\ ~accepts
    THEN Raise(AnErrorOccurred("duplicate columns", Range(df.cols)))
    ELSE Ok(df)

\* merged.to_excel(writer, index=False): header and rows, no index column
ToExcel(df) == Sheet(df.cols, df.rows)

-----------------------------------------------------------------------------
(* One run of the script below the button *)

NoStats == [total |-> None, matched |-> None, unmatched |-> None]

\* what a run has rendered and computed so far
Blank ==
    [shown |-> {}, error |-> NoError, df_b_clean |-> None, merged |-> None,
     stats |-> NoStats, download |-> None, unmatched |-> None]

\* st.error(...) then st.stop(): the run ends, what was rendered stays
Stopped(page, c, f) == [page EXCEPT !.error = ColumnNotFound(c, f)]

\* the except branch: st.error with the exception's text, then the st.info hint
Excepted(page, e) ==
    [page EXCEPT !.error = e, !.shown = @ \cup {"Check Files Hint"}]

\* the columns of the unmatched expander's table
UnmatchedCols(m, mc, tc) == <<mc>> \o SelectSeq(m.cols, LAMBDA c : c # tc)

\* the statistics, the preview, the download and the unmatched rows of the
\* merged frame m, rendered after the "Total Rows" metric; accepts: whether
\* st.dataframe takes a repeated column label
Report(page, m, mc, tc, accepts) ==
    LET matched_count   == NotnaSum(m, tc)
        unmatched_count == IsnaSum(m, tc)
        done == [page EXCEPT
                    !.stats.matched   = Some(matched_count),
                    !.stats.unmatched = Some(unmatched_count),
                    !.download        = Some(ToExcel(m)),
                    !.shown = @ \cup {"Matched Records", "Unmatched Records",
                                      "Merged Data Preview", "Download Results"}]
        \* the expander is opened, then its table is handed to st.dataframe
        opened == [done EXCEPT !.shown = @ \cup {"Unmatched Records View"}]
        table  == StDataframe(Select(WhereNa(m, tc), UnmatchedCols(m, mc, tc)), accepts)
    IN  IF unmatched_count > 0
        THEN IF table.ok THEN [opened EXCEPT !.unmatched = Some(table.df)]
             ELSE Excepted(opened, table.error)
        ELSE done

\* the three column checks; the page unchanged when all pass
Validate(page, df_a, df_b, mc, tc) ==
    IF mc \notin Range(df_a.cols) THEN Stopped(page, mc, "File A")
    ELSE IF mc \notin Range(df_b.cols) THEN Stopped(page, mc, "File B")
    ELSE IF tc \notin Range(df_b.cols) THEN Stopped(page, tc, "File B")
    ELSE page

\* the body of "if start_processing and file_a is not None and file_b is not None"
Process(fa, fb, mc, tc, accepts) ==
    LET ra == ReadExcel(fa) IN
    IF ~ra.ok THEN Excepted(Blank, ra.error) ELSE
    LET rb == ReadExcelUsecols(fb, {mc, tc}) IN
    IF ~rb.ok THEN Excepted(Blank, rb.error) ELSE
    LET df_a    == ra.df
        df_b    == rb.df
        info    == [Blank EXCEPT !.shown = {"File Information"}]
        checked == Validate(info, df_a, df_b, mc, tc)
    IN
    IF checked.error # NoError THEN checked ELSE
    LET clean  == DropDuplicates(df_b, mc)
        joined == Merge(df_a, clean, mc)
        cleaned == [checked EXCEPT !.df_b_clean = Some(clean)]
    IN
    IF ~joined.ok THEN Excepted(cleaned, joined.error) ELSE
    LET m     == joined.df
        total == [cleaned EXCEPT
                    !.merged = Some(m),
                    !.stats.total = Some(Len(m.rows)),
                    !.shown = @ \cup {"Merge Results", "Total Rows"}]
    IN
    \* merged[target_column] raises KeyError without such a column
    IF tc \notin Range(m.cols) THEN Excepted(total, AnErrorOccurred("KeyError", {tc}))
    ELSE Report(total, m, mc, tc, accepts)

\* a rerun that leaves the previous run's page in place
IdleStale(fa, fb) ==
    [shown |-> shown, error |-> error, df_b_clean |-> df_b_clean, merged |-> merged,
     stats |-> stats, download |-> download, unmatched |-> unmatched]

\* a script run without a click: only the upload hint, while a file is missing
Idle(fa, fb) ==
    [Blank EXCEPT !.shown = IF fa = None \/ fb = None THEN {"Upload Hint"} ELSE {}]

Render(page) ==
    /\ shown' = page.shown
    /\ error' = page.error
    /\ df_b_clean' = page.df_b_clean
    /\ merged' = page.merged
    /\ stats' = page.stats
    /\ download' = page.download
    /\ unmatched' = page.unmatched

-----------------------------------------------------------------------------
(* The page *)

Init ==
    /\ file_a = None
    /\ file_b = None
    /\ merge_column = "email"
    /\ target_column = "state"
    /\ start_processing = FALSE
    /\ shown = {"Upload Hint"}
    /\ error = NoError
    /\ df_b_clean = None
    /\ merged = None
    /\ stats = NoStats
    /\ download = None
    /\ unmatched = None

\* a workbook is dropped on the empty uploader of File A; the script reruns
UploadA ==
    /\ file_a = None
    /\ \E f \in FilesA : file_a' = Some(f)
    /\ start_processing' = FALSE
    /\ Render(Idle(file_a', file_b))
    /\ UNCHANGED <<file_b, merge_column, target_column>>

UploadB ==
    /\ file_b = None
    /\ \E f \in FilesB : file_b' = Some(f)
    /\ start_processing' = FALSE
    /\ Render(Idle(file_a, file_b'))
    /\ UNCHANGED <<file_a, merge_column, target_column>>

\* the uploaded workbook is removed from its uploader; the script reruns
RemoveA ==
    /\ file_a # None
    /\ file_a' = None
    /\ start_processing' = FALSE
    /\ Render(Idle(file_a', file_b))
    /\ UNCHANGED <<file_b, merge_column, target_column>>

RemoveB ==
    /\ file_b # None
    /\ file_b' = None
    /\ start_processing' = FALSE
    /\ Render(Idle(file_a, file_b'))
    /\ UNCHANGED <<file_a, merge_column, target_column>>

\* the text inputs are edited; the script reruns
SetMergeColumn ==
    /\ \E c \in ConfigNames \ {merge_column} : merge_column' = c
    /\ start_processing' = FALSE
    /\ Render(Idle(file_a, file_b))
    /\ UNCHANGED <<file_a, file_b, target_column>>

SetTargetColumn ==
    /\ \E c \in ConfigNames \ {target_column} : target_column' = c
    /\ start_processing' = FALSE
    /\ Render(Idle(file_a, file_b))
    /\ UNCHANGED <<file_a, file_b, merge_column>>

\* the button, enabled with both files uploaded, is clicked
StartProcessing ==
    /\ file_a # None
    /\ file_b # None
    /\ start_processing' = TRUE
    /\ \E accepts \in BOOLEAN :
          Render(Process(Get(file_a), Get(file_b), merge_column, target_column, accepts))
    /\ UNCHANGED <<file_a, file_b, merge_column, target_column>>

\* the download button, rendered after a successful merge, is clicked: the
\* browser saves Games_State.xlsx and the script reruns with nothing changed
\* and the Start Processing button False
ClickDownload ==
    /\ "Download Results" \in shown
    /\ IsSome(download)
    /\ start_processing' = FALSE
    /\ Render(Idle(file_a, file_b))
    /\ UNCHANGED <<file_a, file_b, merge_column, target_column>>

Next ==
    \/ UploadA
    \/ UploadB
    \/ RemoveA
    \/ RemoveB
    \/ SetMergeColumn
    \/ SetTargetColumn
    \/ StartProcessing
    \/ ClickDownload

Spec == Init /\ [][Next]_vars

-----------------------------------------------------------------------------
(* Vocabulary of the properties *)

PrimaryTable   == Get(file_a)
SecondaryTable == Get(file_b)

\* the last run was a click and both workbooks are well-formed
Parsed ==
    /\ start_processing
    /\ PrimaryTable.wellformed
    /\ SecondaryTable.wellformed

RefInPrimary      == merge_column \in Range(PrimaryTable.cols)
RefInSecondary    == merge_column \in Range(SecondaryTable.cols)
TargetInSecondary == target_column \in Range(SecondaryTable.cols)

\* the inputs of the last run pass the three presence checks
Validated == Parsed /\ RefInPrimary /\ RefInSecondary /\ TargetInSecondary

\* the last run was a click that ended without st.error
Succeeded == start_processing /\ error = NoError

\* the elements that present the outcome of a merge
ResultElements ==
    {"Merge Results", "Total Rows", "Matched Records", "Unmatched Records",
     "Merged Data Preview", "Download Results", "Unmatched Records View"}

ResultsPresent ==
    \/ shown \cap ResultElements # {}
    \/ IsSome(merged)
    \/ stats # NoStats
    \/ IsSome(download)
    \/ IsSome(unmatched)

\* the position of the first row of SecondaryTable whose key is k (0: none)
FirstWithKey(k) ==
    LET hits == {j \in 1..Len(SecondaryTable.rows) :
                    SecondaryTable.rows[j][merge_column] = k}
    IN  IF hits = {} THEN 0 ELSE CHOOSE j \in hits : \A h \in hits : j <= h

-----------------------------------------------------------------------------
(* Properties *)

\* C1: for every P and S that pass validation, the merged table exists and has
\* exactly as many rows as P, also with duplicate and with missing keys.
C1_RowCountPreserved ==
    Validated =>
        /\ IsSome(merged)
        /\ Len(Get(merged).rows) = Len(PrimaryTable.rows)

\* C2: for every P and S that pass validation, the merged table is P's rows in
\* P's order, every column and value of P unchanged, plus exactly one new
\* field named target_column.
C2_OneNewField ==
    Validated =>
        /\ IsSome(merged)
        /\ Get(merged).cols = PrimaryTable.cols \o <<target_column>>
        /\ target_column \notin Range(PrimaryTable.cols)
        /\ Len(Get(merged).rows) = Len(PrimaryTable.rows)
        /\ \A i \in 1..Len(PrimaryTable.rows) : \A c \in Range(PrimaryTable.cols) :
              Get(merged).rows[i][c] = PrimaryTable.rows[i][c]

\* C3: deduplication keeps the first row of every key of S (the missing marker
\* being one key), and the join gives a row of P the target value of that first
\* row when its key occurs in S, and the missing marker when it does not.
C3_FirstMatchWins ==
    Validated =>
        /\ IsSome(df_b_clean)
        /\ LET d == Get(df_b_clean).rows IN
           /\ {d[n][merge_column] : n \in 1..Len(d)} =
              {SecondaryTable.rows[j][merge_column] : j \in 1..Len(SecondaryTable.rows)}
           /\ \A n \in 1..Len(d) :
                /\ d[n][target_column] =
                   SecondaryTable.rows[FirstWithKey(d[n][merge_column])][target_column]
                /\ \A k \in 1..(n - 1) :
                      FirstWithKey(d[k][merge_column]) < FirstWithKey(d[n][merge_column])
        /\ IsSome(merged)
        /\ target_column \in Range(Get(merged).cols)
        /\ Len(Get(merged).rows) = Len(PrimaryTable.rows)
        /\ \A i \in 1..Len(PrimaryTable.rows) :
              LET j == FirstWithKey(PrimaryTable.rows[i][merge_column]) IN
              Get(merged).rows[i][target_column] =
                  IF j = 0 THEN NA ELSE SecondaryTable.rows[j][target_column]

\* C4: after a successful merge total = matched + unmatched = rows of P, matched
\* counting the merged rows with a target value and unmatched those without;
\* an empty P that passes validation gives three zeros and no error.
C4_StatsAddUp ==
    /\ Succeeded =>
        /\ IsSome(stats.total) /\ IsSome(stats.matched) /\ IsSome(stats.unmatched)
        /\ Get(stats.total) = Get(stats.matched) + Get(stats.unmatched)
        /\ Get(stats.total) = Len(PrimaryTable.rows)
        /\ Get(stats.matched) =
              Cardinality({i \in 1..Len(Get(merged).rows) :
                              Get(merged).rows[i][target_column] # NA})
        /\ Get(stats.unmatched) =
              Cardinality({i \in 1..Len(Get(merged).rows) :
                              Get(merged).rows[i][target_column] = NA})
    /\ (Validated /\ Len(PrimaryTable.rows) = 0) =>
        /\ error = NoError
        /\ stats = [total |-> Some(0), matched |-> Some(0), unmatched |-> Some(0)]

\* C5: a reference column absent from File A or File B ends the run in an error
\* that names the column and the file it is absent from (File A first), and
\* neither deduplication nor join is performed.
C5_MissingReferenceNamed ==
    (Parsed /\ (~RefInPrimary \/ ~RefInSecondary)) =>
        /\ error # NoError
        /\ merge_column \in error.columns
        /\ error.file = IF ~RefInPrimary THEN "File A" ELSE "File B"
        /\ df_b_clean = None
        /\ merged = None

\* C6: the checks run in the order reference in P, reference in S, target in S,
\* and the error reported is the one of the first check that fails.
C6_ValidationOrder ==
    Parsed =>
        IF ~RefInPrimary
        THEN error.columns = {merge_column} /\ error.file = "File A"
        ELSE IF ~RefInSecondary
        THEN error.columns = {merge_column} /\ error.file = "File B"
        ELSE IF ~TargetInSecondary
        THEN error.columns = {target_column} /\ error.file = "File B"
        ELSE error.kind # "Column not found"

\* C7: merge results, statistics, unmatched rows and download are on the page
\* only if the last run was a click whose two workbooks parsed and passed the
\* three checks; a click whose workbooks do not ends in an error.
C7_NoPartialOutput ==
    /\ ResultsPresent => Validated
    /\ (start_processing /\ ~Validated) => (error # NoError /\ ~ResultsPresent)

\* C7 witness: a click ended in a missing-column error, nothing of a merge shown
C7_Witness ==
    /\ start_processing
    /\ error.kind = "Column not found"
    /\ shown = {"File Information"}
    /\ ~ResultsPresent

\* C8: whatever runs came before, a click with well-formed workbooks and
\* columns that pass the checks succeeds with a merged table, the three
\* statistics and the download.
C8_ValidRunSucceeds ==
    Validated =>
        /\ error = NoError
        /\ IsSome(merged)
        /\ IsSome(stats.total) /\ IsSome(stats.matched) /\ IsSome(stats.unmatched)
        /\ IsSome(download)

\* C9: after a successful merge the unmatched view is shown exactly when
\* unmatched > 0; it holds the merged rows without target value, in order,
\* every column of P once and no target column.
C9_UnmatchedView ==
    (start_processing /\ IsSome(stats.unmatched)) =>
        /\ IsSome(unmatched) <=> Get(stats.unmatched) > 0
        /\ IsSome(unmatched) =>
            LET u    == Get(unmatched)
                miss == WhereNa(Get(merged), target_column).rows
            IN  /\ Len(u.rows) = Get(stats.unmatched)
                /\ Len(u.rows) = Len(miss)
                /\ \A i \in 1..Len(miss) : \A c \in Range(u.cols) : u.rows[i][c] = miss[i][c]
                /\ target_column \notin Range(u.cols)
                /\ Range(u.cols) = Range(PrimaryTable.cols)
                /\ \A c \in Range(PrimaryTable.cols) :
                      Cardinality({n \in 1..Len(u.cols) : u.cols[n] = c}) = 1

\* C10: deduplicating a deduplicated table changes nothing, and a deduplicated
\* table has at most one row per key, the missing marker being one key: for
\* every uploaded File B and each of its columns as key, and for the table the
\* run deduplicated.
C10_DedupIdempotent ==
    /\ (file_b # None /\ SecondaryTable.wellformed) =>
          \A key \in Range(SecondaryTable.cols) :
              LET d == DropDuplicates(Frame(SecondaryTable.cols, SecondaryTable.rows), key)
              IN  /\ DropDuplicates(d, key) = d
                  /\ \A i, j \in 1..Len(d.rows) :
                        i # j => d.rows[i][key] # d.rows[j][key]
    /\ IsSome(df_b_clean) =>
          LET d == Get(df_b_clean)
          IN  /\ DropDuplicates(d, merge_column) = d
              /\ \A i, j \in 1..Len(d.rows) :
                    i # j => d.rows[i][merge_column] # d.rows[j][merge_column]

\* C10 witness: the run dropped a second row with a missing key
C10_Witness ==
    /\ start_processing
    /\ IsSome(df_b_clean)
    /\ Len(SecondaryTable.rows) = 2
    /\ \A j \in 1..2 : SecondaryTable.rows[j][merge_column] = NA
    /\ Len(Get(df_b_clean).rows) = 1

=============================================================================
